---- MODULE Spec2Model ----
(***************************************************************************)
(* Model of the Flare FTSO provider monitor: src/main.py (threshold        *)
(* evaluation, Telegram dispatch, monitor loop) and src/agent.py (the      *)
(* fetcher).                                                               *)
(*                                                                         *)
(* Representation.  An environment variable is a record [set, chars]:      *)
(* set = FALSE is Python's None; chars is the string, one character per    *)
(* element.  Percentages are fixed point, in tenths of a percent (90.0 is  *)
(* 900), so that float("99.5") has a value; the strings of the model have  *)
(* at most one fractional digit.  An optional value (None or x) is the     *)
(* sequence <<>> or <<x>>.  A call that can raise returns a record with    *)
(* the field exc.                                                          *)
(***************************************************************************)
EXTENDS Integers, Sequences, FiniteSets, TLC

VARIABLES env, pc, interval, observed, cycle, dispatches, sleepDur, evalIn, evalOut

vars == <<env, pc, interval, observed, cycle, dispatches, sleepDur, evalIn, evalOut>>

---------------------------------------------------------------------------
(* Bounds of the model.                                                    *)

\* metric values of the evaluation specification range over 0..MaxMetric
MaxMetric == 2

\* small elapsed times (seconds) of a cycle range over 0..MaxElapsed
MaxElapsed == 2

\* snapshots the agent returns in the loop have at most MaxLow low metrics
\* (or all six low)
MaxLow == 1

---------------------------------------------------------------------------
(* Environment values and Python's conversions.                            *)

Absent == [set |-> FALSE, chars |-> <<>>]

Str(s) == [set |-> TRUE, chars |-> s]

\* Python truthiness of an os.getenv result: None and "" are false
Truthy(v) == v.set /\ v.chars # <<>>

Digits == {"0", "1", "2", "3", "4", "5", "6", "7", "8", "9"}

DigitVal == ("0" :> 0) @@ ("1" :> 1) @@ ("2" :> 2) @@ ("3" :> 3) @@ ("4" :> 4)
    @@ ("5" :> 5) @@ ("6" :> 6) @@ ("7" :> 7) @@ ("8" :> 8) @@ ("9" :> 9)

AllDigits(s) == Len(s) > 0 /\ \A i \in 1..Len(s) : s[i] \in Digits

RECURSIVE DecVal(_)
DecVal(s) ==
    IF s = <<>> THEN 0
    ELSE 10 * DecVal(SubSeq(s, 1, Len(s) - 1)) + DigitVal[s[Len(s)]]

HasSign(s) == Len(s) > 0 /\ s[1] \in {"-", "+"}

Unsigned(s) == IF HasSign(s) THEN Tail(s) ELSE s

Signed(s, n) == IF HasSign(s) /\ s[1] = "-" THEN 0 - n ELSE n

\* int(str): an optional sign and one or more digits; anything else raises
\* ValueError (the empty string and "2.5" included)
ParseInt(s) ==
    IF AllDigits(Unsigned(s))
    THEN [exc |-> FALSE, val |-> Signed(s, DecVal(Unsigned(s)))]
    ELSE [exc |-> TRUE, val |-> 0]

DotAt(s) == {i \in 1..Len(s) : s[i] = "."}

\* float(str), value in tenths: an optional sign, digits, and optionally a
\* point followed by one digit; anything else raises ValueError
ParseFloat(s) ==
    LET u == Unsigned(s)
        dots == DotAt(u)
    IN  IF AllDigits(u)
        THEN [exc |-> FALSE, val |-> Signed(s, 10 * DecVal(u))]
        ELSE IF dots = {Len(u) - 1} /\ Len(u) >= 3
                /\ AllDigits(SubSeq(u, 1, Len(u) - 2)) /\ u[Len(u)] \in Digits
        THEN [exc |-> FALSE,
              val |-> Signed(s, 10 * DecVal(SubSeq(u, 1, Len(u) - 2))
                                + DigitVal[u[Len(u)]])]
        ELSE [exc |-> TRUE, val |-> 0]

---------------------------------------------------------------------------
(* Metrics and thresholds.                                                 *)

\* the six leaves of WebpageInfo, in the order check_provider_data reads them
MetricOrder == <<"availability_6h", "availability_24h",
                 "success_rate_6h.primary", "success_rate_6h.secondary",
                 "success_rate_24h.primary", "success_rate_24h.secondary">>

MetricKeys == {MetricOrder[i] : i \in 1..Len(MetricOrder)}

ThresholdKeys == {"min_availability_6h", "min_availability_24h",
                  "min_success_rate_6h_primary", "min_success_rate_6h_secondary",
                  "min_success_rate_24h_primary", "min_success_rate_24h_secondary"}

DEFAULT_THRESHOLDS ==
    [min_availability_6h |-> 900,
     min_availability_24h |-> 900,
     min_success_rate_6h_primary |-> 200,
     min_success_rate_6h_secondary |-> 850,
     min_success_rate_24h_primary |-> 200,
     min_success_rate_24h_secondary |-> 850]

DEFAULT_MONITORING_INTERVAL == 900

\* the sleep of monitor_loop's except branch
FALLBACK_SLEEP == 60

\* the comparison of every threshold check, with "<=" in place of "<"
BelowOrEqual(value, threshold) == value <= threshold

\* the comparison of every threshold check: strict less-than
Below(value, threshold) == value < threshold

Alert(metric, value, threshold) ==
    [metric |-> metric, value |-> value, threshold |-> threshold]

\* the six checks of check_provider_data, each appending to alerts
Violations(d, t) ==
    LET a0 == <<>>
        a1 == IF Below(d["availability_6h"], t["min_availability_6h"])
              THEN Append(a0, Alert("availability_6h", d["availability_6h"],
                                    t["min_availability_6h"]))
              ELSE a0
        a2 == IF Below(d["availability_24h"], t["min_availability_24h"])
              THEN Append(a1, Alert("availability_24h", d["availability_24h"],
                                    t["min_availability_24h"]))
              ELSE a1
        a3 == IF Below(d["success_rate_6h.primary"], t["min_success_rate_6h_primary"])
              THEN Append(a2, Alert("success_rate_6h.primary",
                                    d["success_rate_6h.primary"],
                                    t["min_success_rate_6h_primary"]))
              ELSE a2
        a4 == IF Below(d["success_rate_6h.secondary"], t["min_success_rate_6h_secondary"])
              THEN Append(a3, Alert("success_rate_6h.secondary",
                                    d["success_rate_6h.secondary"],
                                    t["min_success_rate_6h_secondary"]))
              ELSE a3
        a5 == IF Below(d["success_rate_24h.primary"], t["min_success_rate_24h_primary"])
              THEN Append(a4, Alert("success_rate_24h.primary",
                                    d["success_rate_24h.primary"],
                                    t["min_success_rate_24h_primary"]))
              ELSE a4
        a6 == IF Below(d["success_rate_24h.secondary"], t["min_success_rate_24h_secondary"])
              THEN Append(a5, Alert("success_rate_24h.secondary",
                                    d["success_rate_24h.secondary"],
                                    t["min_success_rate_24h_secondary"]))
              ELSE a5
    IN  a6

---------------------------------------------------------------------------
(* Configuration: the process environment, read-only after start.          *)

TokenVals == {Absent, Str(<<>>), Str(<<"t">>)}

ChatVals == {Absent, Str(<<>>), Str(<<"c">>)}

AddrVals == {Absent, Str(<<>>), Str(<<"a">>)}

\* MONITORING_INTERVAL: unset, "", "x", "2", "-2", "2.5"
IntervalVals == {Absent, Str(<<>>), Str(<<"x">>), Str(<<"2">>),
                 Str(<<"-", "2">>), Str(<<"2", ".", "5">>)}

\* a threshold override: "", "x", "99.5"
ThrStrs == {Str(<<>>), Str(<<"x">>), Str(<<"9", "9", ".", "5">>)}

NoOverride == [k \in ThresholdKeys |-> Absent]

\* the threshold variables: none set, or exactly one of them set
ThrEnvs == {NoOverride} \cup
    {[NoOverride EXCEPT ![k] = v] : k \in ThresholdKeys, v \in ThrStrs}

\* the credentials: both set, one of them missing (unset or ""), both unset
Creds == {c \in TokenVals \X ChatVals :
            Truthy(c[1]) \/ Truthy(c[2]) \/ (c[1] = Absent /\ c[2] = Absent)}

Envs == {[token |-> c[1], chat |-> c[2], addr |-> a, interval |-> i, thr |-> t] :
            c \in Creds, a \in AddrVals, i \in IntervalVals, t \in ThrEnvs}

---------------------------------------------------------------------------
(* send_telegram_alert.                                                    *)

\* what requests.post / raise_for_status can do
PostOutcomes == {"ok", "timeout", "http_error", "network_error"}

SendResult(ret, posts, exc, outcome) ==
    [ret |-> ret, posts |-> posts, exc |-> exc, outcome |-> outcome]

\* the credential guard with "and" in place of "or": the POST is skipped
\* only when both credentials are missing
send_telegram_alert_and(token, chat, post) ==
    IF ~Truthy(token) /\ ~Truthy(chat)
    THEN SendResult(FALSE, 0, FALSE, "none")
    ELSE SendResult(post = "ok", 1, FALSE, post)

\* an except clause that catches timeouts only: the other failures of the
\* POST escape to the caller
send_telegram_alert_narrow(token, chat, post) ==
    IF ~Truthy(token) \/ ~Truthy(chat)
    THEN SendResult(FALSE, 0, FALSE, "none")
    ELSE IF post = "ok" THEN SendResult(TRUE, 1, FALSE, post)
    ELSE IF post = "timeout" THEN SendResult(FALSE, 1, FALSE, post)
    ELSE SendResult(FALSE, 1, TRUE, post)

\* send_telegram_alert(message): the guard, then one POST inside
\* try/except Exception
send_telegram_alert(token, chat, post) ==
    IF ~Truthy(token) \/ ~Truthy(chat)
    THEN SendResult(FALSE, 0, FALSE, "none")
    ELSE IF post = "ok" THEN SendResult(TRUE, 1, FALSE, post)
    ELSE SendResult(FALSE, 1, FALSE, post)

\* one call of send_telegram_alert, as the log of the cycle keeps it
Dispatch(kind, s) ==
    [kind |-> kind, ret |-> s.ret, posts |-> s.posts, exc |-> s.exc,
     outcome |-> s.outcome]

---------------------------------------------------------------------------
(* get_thresholds.                                                         *)

\* float(env_value) if env_value else default_value, for every key; the
\* first ValueError escapes
get_thresholds(thrEnv) ==
    IF \E k \in ThresholdKeys : Truthy(thrEnv[k]) /\ ParseFloat(thrEnv[k].chars).exc
    THEN [exc |-> TRUE, val |-> DEFAULT_THRESHOLDS]
    ELSE [exc |-> FALSE,
          val |-> [k \in ThresholdKeys |->
                     IF Truthy(thrEnv[k]) THEN ParseFloat(thrEnv[k].chars).val
                     ELSE DEFAULT_THRESHOLDS[k]]]

---------------------------------------------------------------------------
(* The fetcher: get_provider_monitor_data.                                 *)

EmptyFields == [k \in {} |-> 0]

AgentOutcome(run, kind, json, fields) ==
    [run |-> run, kind |-> kind, json |-> json, fields |-> fields]

LoopMetricVals == {0, 1000}

LowKeys(s) == {k \in MetricKeys : s[k] = 0}

LoopSnapshots ==
    {s \in [MetricKeys -> LoopMetricVals] :
        Cardinality(LowKeys(s)) <= MaxLow \/ LowKeys(s) = MetricKeys}

AllHigh == [k \in MetricKeys |-> 1000]

Without(s, ks) == [k \in MetricKeys \ ks |-> s[k]]

\* agent.run() raises; final_result() is None, "", text that is no JSON,
\* JSON with a field missing, or JSON of a whole snapshot
AgentOutcomes ==
    {AgentOutcome("raises", "none", FALSE, EmptyFields),
     AgentOutcome("ok", "none", FALSE, EmptyFields),
     AgentOutcome("ok", "empty", FALSE, EmptyFields),
     AgentOutcome("ok", "text", FALSE, EmptyFields),
     AgentOutcome("ok", "text", TRUE, Without(AllHigh, {"availability_6h"})),
     AgentOutcome("ok", "text", TRUE,
         Without(AllHigh, {"success_rate_24h.primary", "success_rate_24h.secondary"}))}
    \cup {AgentOutcome("ok", "text", TRUE, s) : s \in LoopSnapshots}

\* WebpageInfo.model_validate_json: every field of the schema is required
model_validate_json(text) ==
    IF text.json /\ DOMAIN text.fields = MetricKeys
    THEN [exc |-> FALSE, val |-> text.fields]
    ELSE [exc |-> TRUE, val |-> EmptyFields]

\* a fetcher that fills the fields the text lacks with 0 instead of raising
get_provider_monitor_data_default(custom, envAddr, agent) ==
    LET current == IF Truthy(custom) THEN custom ELSE envAddr
    IN  IF ~Truthy(current) THEN [exc |-> TRUE, val |-> EmptyFields]
        ELSE IF agent.run = "raises" THEN [exc |-> TRUE, val |-> EmptyFields]
        ELSE [exc |-> FALSE,
              val |-> [k \in MetricKeys |->
                         IF k \in DOMAIN agent.fields THEN agent.fields[k] ELSE 0]]

\* get_provider_monitor_data(custom_provider_address)
get_provider_monitor_data(custom, envAddr, agent) ==
    LET current == IF Truthy(custom) THEN custom ELSE envAddr
    IN  IF ~Truthy(current) THEN [exc |-> TRUE, val |-> EmptyFields]
        ELSE IF agent.run = "raises" THEN [exc |-> TRUE, val |-> EmptyFields]
        ELSE IF agent.kind = "text" THEN model_validate_json(agent)
        ELSE [exc |-> TRUE, val |-> EmptyFields]

---------------------------------------------------------------------------
(* check_provider_data.                                                    *)

\* the entry of the alert list check_provider_data returns on a failure
ErrorEntry == Alert("Error checking provider data", 0, 0)

CheckResult(exc, data, alerts, sends, fetchFailed, evaluated) ==
    [exc |-> exc, data |-> data, alerts |-> alerts, sends |-> sends,
     fetchFailed |-> fetchFailed, evaluated |-> evaluated]

\* "if alerts:" dropped: an alert is sent after every evaluation
ShouldAlertAlways(alerts) == TRUE

\* "if alerts:"
ShouldAlert(alerts) == alerts # <<>>

\* the try/except of check_provider_data, from the completion of the fetch
\* on.  thresholds is what get_thresholds returned before the try; post1 and
\* post2 are the outcomes of the POSTs, in the order they are made.
check_provider_data_try(custom, e, thresholds, agent, post1, post2) ==
    LET fetch  == get_provider_monitor_data(custom, e.addr, agent)
        alerts == IF fetch.exc THEN <<>> ELSE Violations(fetch.val, thresholds)
        alerted == ~fetch.exc /\ ShouldAlert(alerts)
        s1     == send_telegram_alert(e.token, e.chat, post1)
        sends1 == IF alerted THEN <<Dispatch("violation", s1)>> ELSE <<>>
        raised == fetch.exc \/ (alerted /\ s1.exc)
        s2     == send_telegram_alert(e.token, e.chat,
                                      IF alerted THEN post2 ELSE post1)
        sends2 == Append(sends1, Dispatch("error", s2))
    IN  IF ~raised
        THEN CheckResult(FALSE, <<fetch.val>>, alerts, sends1, FALSE, TRUE)
        ELSE IF s2.exc
        THEN CheckResult(TRUE, <<>>, <<>>, sends2, fetch.exc, ~fetch.exc)
        ELSE CheckResult(FALSE, <<>>, <<ErrorEntry>>, sends2, fetch.exc, ~fetch.exc)

---------------------------------------------------------------------------
(* monitor_loop.                                                           *)

\* int(os.getenv("MONITORING_INTERVAL", DEFAULT_MONITORING_INTERVAL))
monitoring_interval(v) ==
    IF v.set THEN ParseInt(v.chars)
    ELSE [exc |-> FALSE, val |-> DEFAULT_MONITORING_INTERVAL]

Max(a, b) == IF a >= b THEN a ELSE b

\* the sleep time without the max(0, ...)
sleep_time_unclamped(iv, elapsed) == iv - elapsed

\* sleep_time = max(0, interval - elapsed)
sleep_time(iv, elapsed) == Max(0, iv - elapsed)

NextStep(p, dur) == [pc |-> p, dur |-> dur]

\* a loop without the except branch: the exception leaves monitor_loop
loop_except_reraise == NextStep("crashed", 0)

\* except Exception in the loop: log, sleep 60 s, go round again
loop_except == NextStep("sleeping", FALLBACK_SLEEP)

\* the end of the loop's try body: sleep when sleep_time > 0
loop_after_check(st) ==
    IF st > 0 THEN NextStep("sleeping", st) ELSE NextStep("top", 0)

\* time.time() - start_time of a cycle, in seconds
ElapsedVals == (0..MaxElapsed) \cup {100, 950}

\* what the current cycle has got from outside the program: the outcome of
\* the agent run and the reading of the clock when the check returned
NotObserved == [agent |-> <<>>, clock |-> <<>>]

IdleCycle ==
    [phase |-> "idle", thresholds |-> <<>>, exc |-> FALSE,
     thrFailed |-> FALSE, fetchFailed |-> FALSE, evaluated |-> FALSE,
     data |-> <<>>, alerts |-> <<>>, elapsed |-> 0, sleep_time |-> 0,
     slept |-> FALSE]

NoEvalIn == [data |-> [k \in MetricKeys |-> 0], thr |-> DEFAULT_THRESHOLDS]

NoEvalOut == [done |-> FALSE, alerts |-> <<>>]

Init ==
    /\ env \in Envs
    /\ pc = "start"
    /\ interval = 0
    /\ observed = NotObserved
    /\ cycle = IdleCycle
    /\ dispatches = <<>>
    /\ sleepDur = 0
    /\ evalIn = NoEvalIn
    /\ evalOut = NoEvalOut

\* monitor_loop up to the while: the interval, the address check
monitor_loop_start ==
    /\ pc = "start"
    /\ LET iv == monitoring_interval(env.interval)
       IN  IF iv.exc
           THEN /\ pc' = "crashed"
                /\ UNCHANGED <<interval, dispatches>>
           ELSE IF ~Truthy(env.addr)
           THEN \E post \in PostOutcomes :
                   LET s == send_telegram_alert(env.token, env.chat, post)
                   IN  /\ dispatches' = <<Dispatch("config", s)>>
                       /\ pc' = IF s.exc THEN "crashed" ELSE "returned"
                       /\ interval' = iv.val
           ELSE /\ pc' = "top"
                /\ interval' = iv.val
                /\ UNCHANGED dispatches
    /\ UNCHANGED <<env, observed, cycle, sleepDur, evalIn, evalOut>>

\* the top of a cycle: start_time, get_thresholds, and the fetch is awaited;
\* a ValueError of get_thresholds reaches the loop's except branch
cycle_begin ==
    /\ pc = "top"
    /\ LET thr == get_thresholds(env.thr)
       IN  IF thr.exc
           THEN /\ pc' = loop_except.pc
                /\ sleepDur' = loop_except.dur
                /\ cycle' = [IdleCycle EXCEPT !.phase = "done", !.exc = TRUE,
                                              !.thrFailed = TRUE, !.slept = TRUE]
           ELSE /\ pc' = "fetching"
                /\ sleepDur' = 0
                /\ cycle' = [IdleCycle EXCEPT !.phase = "fetching",
                                              !.thresholds = <<thr.val>>]
    /\ dispatches' = <<>>
    /\ observed' = NotObserved
    /\ UNCHANGED <<env, interval, evalIn, evalOut>>

\* the fetch completes: the rest of check_provider_data, then elapsed and
\* sleep_time, and the sleep begins (or the next cycle, without a sleep)
fetch_return ==
    /\ pc = "fetching"
    /\ \E agent \in AgentOutcomes, elapsed \in ElapsedVals :
          /\ observed' = [agent |-> <<agent>>, clock |-> <<elapsed>>]
          /\ \E post1 \in PostOutcomes, post2 \in PostOutcomes :
                LET r  == check_provider_data_try(env.addr, env, cycle.thresholds[1],
                                                  agent, post1, post2)
                    st == sleep_time(interval, elapsed)
                    nx == IF r.exc THEN loop_except ELSE loop_after_check(st)
                IN  /\ pc' = nx.pc
                    /\ sleepDur' = nx.dur
                    /\ dispatches' = r.sends
                    /\ cycle' = [cycle EXCEPT !.phase = "done",
                                              !.exc = r.exc,
                                              !.fetchFailed = r.fetchFailed,
                                              !.evaluated = r.evaluated,
                                              !.data = r.data, !.alerts = r.alerts,
                                              !.elapsed = IF r.exc THEN 0 ELSE elapsed,
                                              !.sleep_time = IF r.exc THEN 0 ELSE st,
                                              !.slept = (nx.pc = "sleeping")]
    /\ UNCHANGED <<env, interval, evalIn, evalOut>>

\* asyncio.sleep returns: back to the top of the loop
sleep_done ==
    /\ pc = "sleeping"
    /\ pc' = "top"
    /\ sleepDur' = 0
    /\ cycle' = IdleCycle
    /\ observed' = NotObserved
    /\ dispatches' = <<>>
    /\ UNCHANGED <<env, interval, evalIn, evalOut>>

\* KeyboardInterrupt or cancellation from outside the program
interrupt ==
    /\ pc \in {"top", "fetching", "sleeping"}
    /\ pc' = "interrupted"
    /\ UNCHANGED <<env, interval, observed, cycle, dispatches, sleepDur, evalIn, evalOut>>

Next ==
    \/ monitor_loop_start
    \/ cycle_begin
    \/ fetch_return
    \/ sleep_done
    \/ interrupt

Spec == Init /\ [][Next]_vars

\* every await of the loop completes (the agent run, the sleep), and the
\* synchronous steps between them run
Fairness ==
    /\ WF_vars(monitor_loop_start)
    /\ WF_vars(cycle_begin)
    /\ WF_vars(fetch_return)
    /\ WF_vars(sleep_done)

\* the configurations of the fair specification: one representative of
\* each way the configuration steers the loop (credentials usable or not,
\* address set or not, interval default / parsed / not an integer,
\* thresholds default / overridden / not a number)
FairEnvs ==
    {e \in Envs :
        /\ e.chat = Str(<<"c">>)
        /\ e.token \in {Absent, Str(<<"t">>)}
        /\ \A k \in ThresholdKeys \ {"min_availability_6h"} : e.thr[k] = Absent
        /\ e.thr["min_availability_6h"] # Str(<<>>)}

FairInit ==
    /\ env \in FairEnvs
    /\ pc = "start"
    /\ interval = 0
    /\ observed = NotObserved
    /\ cycle = IdleCycle
    /\ dispatches = <<>>
    /\ sleepDur = 0
    /\ evalIn = NoEvalIn
    /\ evalOut = NoEvalOut

FairSpec == FairInit /\ [][Next]_vars /\ Fairness

---------------------------------------------------------------------------
(* The evaluation alone: check_provider_data's six checks on every         *)
(* snapshot and threshold set of the bounded domain.                       *)

MetricVals == 0..MaxMetric

\* thresholds take the two highest metric values, so that every metric can
\* be below, equal to and (for the lower threshold) above its threshold, and
\* the thresholds of two metrics can differ
ThrVals == {MaxMetric - 1, MaxMetric}

EvalInit ==
    /\ evalIn \in [data : [MetricKeys -> MetricVals], thr : [ThresholdKeys -> ThrVals]]
    /\ evalOut = NoEvalOut
    /\ env = [token |-> Absent, chat |-> Absent, addr |-> Absent,
              interval |-> Absent, thr |-> NoOverride]
    /\ pc = "eval"
    /\ interval = 0
    /\ observed = NotObserved
    /\ cycle = IdleCycle
    /\ dispatches = <<>>
    /\ sleepDur = 0

evaluate ==
    /\ pc = "eval"
    /\ ~evalOut.done
    /\ evalOut' = [done |-> TRUE, alerts |-> Violations(evalIn.data, evalIn.thr)]
    /\ UNCHANGED <<env, pc, interval, observed, cycle, dispatches, sleepDur, evalIn>>

EvalNext == evaluate

EvalSpec == EvalInit /\ [][EvalNext]_vars

---------------------------------------------------------------------------
(* Properties.                                                             *)

\* the threshold each metric is compared against
ThresholdOf ==
    [k \in MetricKeys |->
        CASE k = "availability_6h" -> "min_availability_6h"
          [] k = "availability_24h" -> "min_availability_24h"
          [] k = "success_rate_6h.primary" -> "min_success_rate_6h_primary"
          [] k = "success_rate_6h.secondary" -> "min_success_rate_6h_secondary"
          [] k = "success_rate_24h.primary" -> "min_success_rate_24h_primary"
          [] OTHER -> "min_success_rate_24h_secondary"]

Pos(k) == CHOOSE i \in 1..Len(MetricOrder) : MetricOrder[i] = k

Named(alerts, k) == \E j \in 1..Len(alerts) : alerts[j].metric = k

CredsMissing == ~Truthy(env.token) \/ ~Truthy(env.chat)

Sent(kind) == \E j \in 1..Len(dispatches) : dispatches[j].kind = kind

CycleDone == cycle.phase = "done"

\* the agent ran and what it returned does not validate against the schema
\* (no result, an empty result, no JSON, or a field missing)
AgentInvalid(a) ==
    a.run = "ok" /\ (a.kind # "text" \/ ~a.json \/ DOMAIN a.fields # MetricKeys)

\* C1: the violation list names exactly the metrics strictly below their own
\* threshold, each once, in the fixed order of MetricOrder; a metric equal to
\* or above its threshold is never named, whatever the other metrics are.
C1_ViolationsFilterFixedOrder ==
    evalOut.done =>
        /\ \A k \in MetricKeys :
              Named(evalOut.alerts, k) <=> evalIn.data[k] < evalIn.thr[ThresholdOf[k]]
        /\ \A i, j \in 1..Len(evalOut.alerts) :
              i < j => Pos(evalOut.alerts[i].metric) < Pos(evalOut.alerts[j].metric)

\* C1 witness: the first metric equals its threshold and is not named, the
\* second and the fifth are below theirs and are the whole list, in order
C1_Witness ==
    /\ evalOut.done
    /\ evalIn.data["availability_6h"] = evalIn.thr["min_availability_6h"]
    /\ Len(evalOut.alerts) = 2
    /\ evalOut.alerts[1].metric = "availability_24h"
    /\ evalOut.alerts[2].metric = "success_rate_24h.primary"

\* C2: every failure inside a cycle (threshold loading, fetch, parse) is
\* followed in that cycle by an error alert dispatch attempt, and the loop
\* goes on.
C2_EveryFailureDispatchesError ==
    (CycleDone /\ (cycle.thrFailed \/ cycle.fetchFailed)) =>
        /\ Sent("error")
        /\ pc \in {"top", "sleeping", "interrupted"}

\* C3: after a cycle whose fetch or evaluation failed, the loop sleeps the
\* fixed fallback of 60 seconds.
C3_FailureSleepsFallback ==
    (CycleDone /\ cycle.fetchFailed) =>
        (cycle.slept /\ sleepDur = FALLBACK_SLEEP)

C5_SleepIsClampedRemainder ==
    (CycleDone /\ ~cycle.exc) =>
        /\ cycle.sleep_time >= 0
        /\ cycle.elapsed < interval =>
              /\ cycle.sleep_time = interval - cycle.elapsed
              /\ cycle.slept
              /\ sleepDur = cycle.sleep_time
        /\ cycle.elapsed >= interval =>
              /\ cycle.sleep_time = 0
              /\ ~cycle.slept
              /\ pc \in {"top", "interrupted"}

\* C5 witness: interval 900, the check took 950 s, no sleep
C5_Witness ==
    /\ CycleDone
    /\ ~cycle.exc
    /\ interval = DEFAULT_MONITORING_INTERVAL
    /\ cycle.elapsed = 950
    /\ cycle.sleep_time = 0
    /\ pc = "top"

\* C6: with the bot token or the chat id missing, every call of
\* send_telegram_alert returns false, makes no POST and does not raise.
C6_MissingCredentialSkipsPost ==
    CredsMissing =>
        \A j \in 1..Len(dispatches) :
            /\ dispatches[j].ret = FALSE
            /\ dispatches[j].posts = 0
            /\ ~dispatches[j].exc

\* C6 witness: the chat id alone is missing and a violation alert was
\* attempted
C6_Witness ==
    /\ Truthy(env.token)
    /\ ~Truthy(env.chat)
    /\ Len(dispatches) = 1
    /\ dispatches[1].kind = "violation"

\* C7: with both credentials, every call makes one POST at most, returns
\* true exactly when the POST succeeded, and never raises; after a failed
\* delivery check_provider_data still returns what the fetch decided and the
\* loop's next step is the interval-derived one.
C7_OnePostNoRaise ==
    ~CredsMissing =>
        \A j \in 1..Len(dispatches) :
            LET d == dispatches[j]
            IN  /\ d.posts <= 1
                /\ d.ret = (d.outcome = "ok")
                /\ ~d.exc
                /\ (d.kind = "config") => pc = "returned"
                /\ (d.kind # "config" /\ d.outcome # "ok") =>
                      /\ CycleDone
                      /\ ~cycle.exc
                      /\ (d.kind = "violation") =>
                            (cycle.data # <<>> /\ ~Named(cycle.alerts, ErrorEntry.metric))
                      /\ (d.kind = "error") =>
                            (cycle.data = <<>> /\ cycle.alerts = <<ErrorEntry>>)
                      /\ cycle.slept = (interval - cycle.elapsed > 0)
                      /\ cycle.slept => sleepDur = interval - cycle.elapsed

\* C7 witness: both credentials set, the POST of a violation alert got a
\* non-2xx answer, and the check returned the snapshot
C7_Witness ==
    /\ ~CredsMissing
    /\ Len(dispatches) = 1
    /\ dispatches[1].kind = "violation"
    /\ dispatches[1].outcome = "http_error"
    /\ dispatches[1].ret = FALSE
    /\ cycle.data # <<>>

\* C8: when the agent returns no result or text that does not validate, the
\* fetch fails: check_provider_data returns no snapshot and the error entry,
\* and no threshold is evaluated.
C8_InvalidOutputIsAnError ==
    (CycleDone /\ observed.agent # <<>> /\ AgentInvalid(observed.agent[1])) =>
        /\ cycle.fetchFailed
        /\ cycle.data = <<>>
        /\ cycle.alerts = <<ErrorEntry>>
        /\ ~cycle.evaluated
        /\ Sent("error")

\* C8 witness: JSON with a field missing ended the cycle with no snapshot
C8_Witness ==
    /\ CycleDone
    /\ observed.agent # <<>>
    /\ observed.agent[1].json
    /\ DOMAIN observed.agent[1].fields # MetricKeys
    /\ cycle.data = <<>>

\* C9: a threshold variable or MONITORING_INTERVAL that is unset or does not
\* parse takes its default; it never makes a cycle fail and never stops the
\* monitor.
C9_UnparsableTakesDefault ==
    /\ pc # "crashed"
    /\ ~cycle.thrFailed
    /\ (pc \in {"top", "fetching", "sleeping"}
          /\ (~env.interval.set \/ ParseInt(env.interval.chars).exc))
          => interval = DEFAULT_MONITORING_INTERVAL
    /\ cycle.thresholds # <<>> =>
          \A k \in ThresholdKeys :
              (~env.thr[k].set \/ ParseFloat(env.thr[k].chars).exc)
                  => cycle.thresholds[1][k] = DEFAULT_THRESHOLDS[k]

\* C10: a cycle makes no dispatch before its fetch has completed and one at
\* most after it: a violation alert exactly when the fetch succeeded with a
\* non-empty violation list, an error alert exactly when the fetch failed,
\* none when the fetch succeeded with no violation; never both.
C10_OneDispatchPerCycle ==
    /\ pc = "fetching" => dispatches = <<>>
    /\ CycleDone =>
          /\ Len(dispatches) <= 1
          /\ Sent("violation") <=> (cycle.data # <<>> /\ cycle.alerts # <<>>)
          /\ Sent("error") <=> cycle.fetchFailed
          /\ (cycle.data # <<>> /\ cycle.alerts = <<>>) => dispatches = <<>>
          /\ ~(Sent("violation") /\ Sent("error"))

\* C10 witness: the fetch succeeded, one metric is low, and the one dispatch
\* of the cycle is the violation alert
C10_Witness ==
    /\ CycleDone
    /\ cycle.data # <<>>
    /\ Len(cycle.alerts) = 1
    /\ dispatches # <<>>
    /\ dispatches[1].kind = "violation"

====
